---- MODULE Spec2Model ----
(***************************************************************************)
(* Model of the JSONPath engine of json-path (src/src/index.ts):           *)
(* queryJsonPath, tokenize, applyToken, collectRecursive, evaluateFilter.  *)
(*                                                                         *)
(* Strings are sequences of one-character strings, so that the tokenizer   *)
(* and the filter pattern scan them character by character as the code     *)
(* does.  JSON values are tagged records.  An Object keeps its members in  *)
(* the order of the parsed text; the order in which the JavaScript engine  *)
(* enumerates them is computed by OwnKeys.                                 *)
(***************************************************************************)
EXTENDS Integers, Sequences, FiniteSets, TLC

\* ------------------------------------------------------------------------
\* Bounds of the model
\* ------------------------------------------------------------------------
\* longest generated numeric array [10, 20, ...]
MaxArrLen == 3
\* slice components are drawn from -1 .. MaxSliceBound (and absent, and "x")
MaxSliceBound == 2
\* number of elements the result array of one applyToken call can hold
\* before the engine gives up (heap exhaustion); scaled down
MaxResults == 6
\* magnitude below which a decreasing loop index no longer changes
\* (the absorbing point of IEEE doubles, scaled down)
SiDepth == 4

\* ------------------------------------------------------------------------
\* Characters
\* ------------------------------------------------------------------------
DigitChars == <<"0", "1", "2", "3", "4", "5", "6", "7", "8", "9">>

IsDigit(ch) == \E d \in 1..10 : DigitChars[d] = ch

DigitVal(ch) == (CHOOSE d \in 1..10 : DigitChars[d] = ch) - 1

Letters ==
  {"a", "b", "c", "d", "e", "f", "g", "h", "i", "j", "k", "l", "m", "n", "o",
   "p", "q", "r", "s", "t", "u", "v", "w", "x", "y", "z",
   "A", "B", "C", "D", "E", "F", "G", "H", "I", "J", "K", "L", "M", "N", "O",
   "P", "Q", "R", "S", "T", "U", "V", "W", "X", "Y", "Z"}

\* \w of the filter pattern
IsWord(ch) == ch \in Letters \/ IsDigit(ch) \/ ch = "_"

\* \s of the filter pattern, and the white space parseInt and Number skip
IsSpace(ch) == ch \in {" ", "\t", "\n"}

IsQuote(ch) == ch \in {"'", "\""}

\* ------------------------------------------------------------------------
\* JsonValue (index.ts:73) and the two kinds of non-JSON value a property
\* read can produce: a function of Object.prototype, and Object.prototype
\* itself.  Undefined is the result of reading a property that is nowhere
\* on the prototype chain.
\* ------------------------------------------------------------------------
Null == [t |-> "null"]
Bool(b) == [t |-> "bool", b |-> b]
Num(n) == [t |-> "num", n |-> n]
Str(s) == [t |-> "str", s |-> s]
Arr(items) == [t |-> "arr", items |-> items]
Obj(members) == [t |-> "obj", members |-> members]
Fn(name) == [t |-> "fn", name |-> name]
ObjectPrototype == [t |-> "proto"]
Undefined == [t |-> "undefined"]

\* the numbers parseInt and Number produce: an integer, or not-a-number
\* for unparseable text
NaN == [nan |-> TRUE, n |-> 0]
JsInt(n) == [nan |-> FALSE, n |-> n]

IsArray(v) == v.t = "arr"

\* typeof v
TypeOf(v) ==
  CASE v.t \in {"null", "arr", "obj", "proto"} -> "object"
    [] v.t = "fn" -> "function"
    [] v.t = "bool" -> "boolean"
    [] v.t = "num" -> "number"
    [] v.t = "str" -> "string"
    [] OTHER -> "undefined"

\* the truthiness test `input && ...` / `!item`
Truthy(v) ==
  CASE v.t \in {"null", "undefined"} -> FALSE
    [] v.t = "bool" -> v.b
    [] v.t = "num" -> v.n # 0
    [] v.t = "str" -> v.s # <<>>
    [] OTHER -> TRUE

\* ------------------------------------------------------------------------
\* Generic sequence helpers
\* ------------------------------------------------------------------------
RECURSIVE Flatten(_)
\* concatenation of a sequence of sequences (results.push(...xs) per input)
Flatten(ss) == IF ss = <<>> THEN <<>> ELSE Head(ss) \o Flatten(Tail(ss))

\* s.startsWith(p)
StartsWith(s, p) == Len(s) >= Len(p) /\ SubSeq(s, 1, Len(p)) = p

\* s.includes(ch)
Includes(s, ch) == \E i \in 1..Len(s) : s[i] = ch

\* s.replace(/['"]/g, "")
StripQuotes(s) == SelectSeq(s, LAMBDA ch : ~IsQuote(ch))

RECURSIVE DecVal(_)
\* value of a string of decimal digits
DecVal(s) ==
  IF s = <<>> THEN 0
  ELSE 10 * DecVal(SubSeq(s, 1, Len(s) - 1)) + DigitVal(s[Len(s)])

AllDigits(s) == \A i \in 1..Len(s) : IsDigit(s[i])

\* ------------------------------------------------------------------------
\* Objects as the JavaScript engine sees them
\* ------------------------------------------------------------------------
\* names of properties of Object.prototype that the model carries (the
\* real prototype has more: hasOwnProperty, isPrototypeOf, ...)
K_constructor == <<"c", "o", "n", "s", "t", "r", "u", "c", "t", "o", "r">>
K_toString == <<"t", "o", "S", "t", "r", "i", "n", "g">>
K_proto == <<"_", "_", "p", "r", "o", "t", "o", "_", "_">>

ProtoKeys == {K_constructor, K_toString, K_proto}

HasOwn(o, key) ==
  o.t = "obj" /\ \E i \in 1..Len(o.members) : o.members[i].k = key

OwnGet(o, key) ==
  o.members[CHOOSE i \in 1..Len(o.members) : o.members[i].k = key].v

\* record[key] for a record that is an object created by JSON.parse, or
\* Object.prototype: own property first, then the prototype chain
Get(o, key) ==
  IF HasOwn(o, key) THEN OwnGet(o, key)
  ELSE IF key = K_constructor THEN Fn("Object")
  ELSE IF key = K_toString THEN Fn("toString")
  ELSE IF key = K_proto
       THEN (IF o.t = "proto" THEN Null ELSE ObjectPrototype)
  ELSE Undefined

\* key in record
KeyIn(o, key) == HasOwn(o, key) \/ key \in ProtoKeys

\* an own key that is a canonical array index ("0", "7", "12", not "01").
\* An index is below 2^32 - 1: every number of up to nine digits is, and no
\* key of the model is longer.
IsArrayIndex(key) ==
  /\ Len(key) >= 1
  /\ Len(key) <= 9
  /\ AllDigits(key)
  /\ (Len(key) = 1 \/ key[1] # "0")

RECURSIVE AscendingIndexKeys(_, _)
\* the positions P of array-index keys, by ascending numeric value
AscendingIndexKeys(members, P) ==
  IF P = {} THEN <<>>
  ELSE LET m == CHOOSE i \in P :
                  \A j \in P : DecVal(members[i].k) <= DecVal(members[j].k)
       IN <<m>> \o AscendingIndexKeys(members, P \ {m})

RECURSIVE CreationOrder(_, _)
\* the positions of P in ascending order
CreationOrder(P, i) ==
  IF P = {} THEN <<>>
  ELSE IF i \in P THEN <<i>> \o CreationOrder(P \ {i}, i + 1)
  ELSE CreationOrder(P, i + 1)

\* the positions of the members as created, array indices not moved
OwnKeysMutantCreation(members) == [i \in 1..Len(members) |-> i]

\* positions of the members in the order OrdinaryOwnPropertyKeys lists
\* them: array indices ascending, then the other keys as created
OwnKeys(members) ==
  LET idx == {i \in 1..Len(members) : IsArrayIndex(members[i].k)}
      oth == (1..Len(members)) \ idx
  IN AscendingIndexKeys(members, idx) \o CreationOrder(oth, 1)

\* Object.values(o)
ObjectValues(o) ==
  IF o.t = "obj"
  THEN LET ord == OwnKeys(o.members)
       IN [i \in 1..Len(ord) |-> o.members[ord[i]].v]
  ELSE <<>>

\* ------------------------------------------------------------------------
\* tokenize (index.ts:95-154).  Positions are 1-based.
\* ------------------------------------------------------------------------
Token(type, value) == [type |-> type, value |-> value]

RECURSIVE ScanName(_, _)
\* the inner while loops of lines 105-108 and 117-120: the first position
\* at or after i that is past the end or holds "." or "["
ScanName(expr, i) ==
  IF i <= Len(expr) /\ expr[i] # "." /\ expr[i] # "["
  THEN ScanName(expr, i + 1)
  ELSE i

RECURSIVE ScanBracket(_, _, _, _)
\* the while loop of lines 128-133; yields the position after the scan and
\* the collected content
ScanBracket(expr, i, depth, content) ==
  IF i <= Len(expr) /\ depth > 0
  THEN LET d1 == IF expr[i] = "[" THEN depth + 1 ELSE depth
           d2 == IF expr[i] = "]" THEN d1 - 1 ELSE d1
       IN ScanBracket(expr, i + 1, d2,
                      IF d2 > 0 THEN Append(content, expr[i]) ELSE content)
  ELSE [i |-> i, content |-> content]

\* lines 135-147 with a sign admitted by the digit test of line 141
BracketTokenMutantSignedIndex(content) ==
  IF content = <<"*">> THEN <<Token("wildcard", <<"*">>)>>
  ELSE IF StartsWith(content, <<"?">>)
       THEN <<Token("filter", Tail(content))>>
  ELSE IF Includes(content, ":") THEN <<Token("slice", content)>>
  ELSE IF content # <<>> /\ AllDigits(content)
       THEN <<Token("index", content)>>
  ELSE IF Len(content) >= 2 /\ content[1] = "-" /\ AllDigits(Tail(content))
       THEN <<Token("index", content)>>
  ELSE <<Token("property", StripQuotes(content))>>

\* lines 135-147 with the guard the dot form has on line 121
BracketTokenMutantSkipEmpty(content) ==
  IF content = <<"*">> THEN <<Token("wildcard", <<"*">>)>>
  ELSE IF StartsWith(content, <<"?">>)
       THEN <<Token("filter", Tail(content))>>
  ELSE IF Includes(content, ":") THEN <<Token("slice", content)>>
  ELSE IF content # <<>> /\ AllDigits(content)
       THEN <<Token("index", content)>>
  ELSE IF StripQuotes(content) = <<>> THEN <<>>
  ELSE <<Token("property", StripQuotes(content))>>

\* lines 135-147: the token a bracket content stands for
BracketToken(content) ==
  IF content = <<"*">> THEN <<Token("wildcard", <<"*">>)>>
  ELSE IF StartsWith(content, <<"?">>)
       THEN <<Token("filter", Tail(content))>>
  ELSE IF Includes(content, ":") THEN <<Token("slice", content)>>
  ELSE IF content # <<>> /\ AllDigits(content)
       THEN <<Token("index", content)>>
  ELSE <<Token("property", StripQuotes(content))>>

RECURSIVE TokenizeFrom(_, _, _)
\* the outer while loop of lines 99-151
TokenizeFrom(expr, i, tokens) ==
  IF i > Len(expr) THEN tokens
  ELSE IF expr[i] = "."
  THEN IF i + 1 <= Len(expr) /\ expr[i + 1] = "."
       THEN LET j == ScanName(expr, i + 2)
            IN TokenizeFrom(expr, j,
                 Append(tokens, Token("recursive", SubSeq(expr, i + 2, j - 1))))
       ELSE IF i + 1 <= Len(expr) /\ expr[i + 1] = "*"
       THEN TokenizeFrom(expr, i + 2, Append(tokens, Token("wildcard", <<"*">>)))
       ELSE LET j == ScanName(expr, i + 1)
                prop == SubSeq(expr, i + 1, j - 1)
            IN TokenizeFrom(expr, j,
                 IF prop # <<>> THEN Append(tokens, Token("property", prop))
                 ELSE tokens)
  ELSE IF expr[i] = "["
  THEN LET sc == ScanBracket(expr, i + 1, 1, <<>>)
       IN TokenizeFrom(expr, sc.i, tokens \o BracketToken(sc.content))
  ELSE TokenizeFrom(expr, i + 1, tokens)

tokenize(expr) == TokenizeFrom(expr, 1, <<>>)

\* ------------------------------------------------------------------------
\* Number parsing
\* ------------------------------------------------------------------------
RECURSIVE SkipSpaces(_, _)
\* the first position at or after i that does not hold white space
SkipSpaces(s, i) ==
  IF i <= Len(s) /\ IsSpace(s[i]) THEN SkipSpaces(s, i + 1) ELSE i

RECURSIVE ScanDigits(_, _)
ScanDigits(s, i) ==
  IF i <= Len(s) /\ IsDigit(s[i]) THEN ScanDigits(s, i + 1) ELSE i

RECURSIVE ScanWord(_, _)
ScanWord(s, i) ==
  IF i <= Len(s) /\ IsWord(s[i]) THEN ScanWord(s, i + 1) ELSE i

\* parseInt(s, 10): white space, an optional sign, then the longest run of
\* digits; NaN when there is no digit.  The result is an integer or NaN.
ParseInt(s) ==
  LET a == SkipSpaces(s, 1)
      signed == a <= Len(s) /\ s[a] \in {"-", "+"}
      b == IF signed THEN a + 1 ELSE a
      e == ScanDigits(s, b)
  IN IF e = b THEN NaN
     ELSE IF signed /\ s[a] = "-" THEN JsInt(0 - DecVal(SubSeq(s, b, e - 1)))
     ELSE JsInt(DecVal(SubSeq(s, b, e - 1)))

\* s.trim()
Trim(s) ==
  LET a == SkipSpaces(s, 1)
      last == IF a > Len(s) THEN a - 1
              ELSE CHOOSE j \in a..Len(s) :
                     /\ ~IsSpace(s[j])
                     /\ \A m \in (j + 1)..Len(s) : IsSpace(s[m])
  IN SubSeq(s, a, last)

\* Number(s) for the literals of the model: white space is trimmed, the
\* empty string is 0, a signed run of digits is its value, anything else is
\* NaN.  (Fractions, exponents, 0x.. and Infinity are numbers too; no
\* literal of the model has one of these forms.)
ToNumber(s) ==
  LET t == Trim(s)
      signed == t # <<>> /\ t[1] \in {"-", "+"}
      ds == IF signed THEN Tail(t) ELSE t
  IN IF t = <<>> THEN JsInt(0)
     ELSE IF ds = <<>> \/ ~AllDigits(ds) THEN NaN
     ELSE IF t[1] = "-" THEN JsInt(0 - DecVal(ds))
     ELSE JsInt(DecVal(ds))

\* ------------------------------------------------------------------------
\* evaluateFilter (index.ts:230-266)
\* ------------------------------------------------------------------------
\* the operators in the order of the alternation (==|!=|>=|<=|>|<)
FilterOps ==
  << <<"=", "=">>, <<"!", "=">>, <<">", "=">>, <<"<", "=">>, <<">">>, <<"<">> >>

\* the text t is \s*\)? up to the end of the input
ClosesPattern(t) ==
  LET c == SkipSpaces(t, 1)
  IN c > Len(t) \/ (c = Len(t) /\ t[c] = ")")

\* the ways \s*(.+?)\s*\)?$ matches rest: w characters of white space, then
\* r characters of value (no line break), then the closing
TailMatches(rest) ==
  {wr \in (0..Len(rest)) \X (1..Len(rest)) :
     /\ wr[1] + wr[2] <= Len(rest)
     /\ \A i \in 1..wr[1] : IsSpace(rest[i])
     /\ \A i \in (wr[1] + 1)..(wr[1] + wr[2]) : rest[i] # "\n"
     /\ ClosesPattern(SubSeq(rest, wr[1] + wr[2] + 1, Len(rest)))}

\* the match the backtracking search finds first: the white space is
\* greedy (longest w), the value is lazy (then the shortest r)
TailMatch(rest) ==
  LET M == TailMatches(rest)
      w == CHOOSE x \in {m[1] : m \in M} : \A m \in M : m[1] <= x
      r == CHOOSE y \in {m[2] : m \in {q \in M : q[1] = w}} :
             \A m \in {q \in M : q[1] = w} : y <= m[2]
  IN SubSeq(rest, w + 1, w + r)

\* filterExpr.match(/^\(?\s*@\.(\w+)\s*(==|!=|>=|<=|>|<)\s*(.+?)\s*\)?$/).
\* The optional parenthesis, the white space, the field (the longest run of
\* word characters) and the white space after it are forced: what follows
\* each of them cannot match a character they give back.
MatchFilter(f) ==
  LET n == Len(f)
      p1 == IF n >= 1 /\ f[1] = "(" THEN 2 ELSE 1
      p2 == SkipSpaces(f, p1)
      p3 == p2 + 2
      p4 == ScanWord(f, p3)
      p5 == SkipSpaces(f, p4)
      OpFits(o) ==
        /\ p5 + Len(FilterOps[o]) - 1 <= n
        /\ SubSeq(f, p5, p5 + Len(FilterOps[o]) - 1) = FilterOps[o]
        /\ TailMatches(SubSeq(f, p5 + Len(FilterOps[o]), n)) # {}
      fits == {o \in 1..Len(FilterOps) : OpFits(o)}
  IN IF /\ p2 + 1 <= n /\ f[p2] = "@" /\ f[p2 + 1] = "."
        /\ p4 > p3
        /\ fits # {}
     THEN LET o == CHOOSE x \in fits : \A y \in fits : x <= y
          IN [ok |-> TRUE,
              field |-> SubSeq(f, p3, p4 - 1),
              op |-> FilterOps[o],
              rawValue |-> TailMatch(SubSeq(f, p5 + Len(FilterOps[o]), n))]
     ELSE [ok |-> FALSE]

\* lines 242-248: the value the literal stands for
CompareVal(rawValue) ==
  IF rawValue = <<"t", "r", "u", "e">> THEN Bool(TRUE)
  ELSE IF rawValue = <<"f", "a", "l", "s", "e">> THEN Bool(FALSE)
  ELSE IF rawValue = <<"n", "u", "l", "l">> THEN Null
  ELSE IF IsQuote(rawValue[1]) THEN Str(StripQuotes(rawValue))
  ELSE IF ~ToNumber(rawValue).nan THEN Num(ToNumber(rawValue).n)
  ELSE Str(rawValue)

\* a === b where b is a primitive
StrictEquals(a, b) == a.t \in {"null", "bool", "num", "str"} /\ a = b

BothNumbers(a, b) == TypeOf(a) = "number" /\ TypeOf(b) = "number"

\* lines 250-265
Compare(op, fieldVal, compareVal) ==
  CASE op = <<"=", "=">> -> StrictEquals(fieldVal, compareVal)
    [] op = <<"!", "=">> -> ~StrictEquals(fieldVal, compareVal)
    [] op = <<">">> -> BothNumbers(fieldVal, compareVal) /\ fieldVal.n > compareVal.n
    [] op = <<"<">> -> BothNumbers(fieldVal, compareVal) /\ fieldVal.n < compareVal.n
    [] op = <<">", "=">> -> BothNumbers(fieldVal, compareVal) /\ fieldVal.n >= compareVal.n
    [] op = <<"<", "=">> -> BothNumbers(fieldVal, compareVal) /\ fieldVal.n <= compareVal.n
    [] OTHER -> FALSE

evaluateFilter(item, filterExpr) ==
  LET match == MatchFilter(filterExpr)
  IN IF ~match.ok THEN FALSE
     ELSE IF ~Truthy(item) \/ TypeOf(item) # "object" \/ IsArray(item) THEN FALSE
     ELSE LET fieldVal == Get(item, match.field)
          IN IF fieldVal = Undefined THEN FALSE
             ELSE Compare(match.op, fieldVal, CompareVal(match.rawValue))

\* ------------------------------------------------------------------------
\* collectRecursive (index.ts:212-228); the pushes onto results are the
\* sequence returned
\* ------------------------------------------------------------------------
RECURSIVE collectRecursive(_, _)
collectRecursive(obj, prop) ==
  IF obj = Null \/ TypeOf(obj) # "object" THEN <<>>
  ELSE IF ~IsArray(obj)
  THEN LET vals == ObjectValues(obj)
       IN (IF KeyIn(obj, prop) THEN <<Get(obj, prop)>> ELSE <<>>)
          \o Flatten([i \in 1..Len(vals) |-> collectRecursive(vals[i], prop)])
  ELSE Flatten([i \in 1..Len(obj.items) |-> collectRecursive(obj.items[i], prop)])

\* ------------------------------------------------------------------------
\* applyToken (index.ts:156-210)
\* ------------------------------------------------------------------------
\* lines 161-166
PropertyCase(input, value) ==
  IF Truthy(input) /\ TypeOf(input) = "object" /\ ~IsArray(input)
  THEN LET val == Get(input, value)
       IN IF val # Undefined THEN <<val>> ELSE <<>>
  ELSE <<>>

\* lines 168-173
IndexCase(input, value) ==
  IF IsArray(input)
  THEN LET idx == ParseInt(value).n
       IN IF idx >= 0 /\ idx < Len(input.items)
          THEN <<input.items[idx + 1]>> ELSE <<>>
  ELSE <<>>

\* lines 175-181
WildcardCase(input) ==
  IF IsArray(input) THEN input.items
  ELSE IF Truthy(input) /\ TypeOf(input) = "object" THEN ObjectValues(input)
  ELSE <<>>

\* lines 187-192
FilterCase(input, value) ==
  IF IsArray(input)
  THEN SelectSeq(input.items, LAMBDA item : evaluateFilter(item, value))
  ELSE <<>>

\* the body of the for loop for one input and a token that is not a slice
ApplyOne(input, token) ==
  CASE token.type = "property" -> PropertyCase(input, token.value)
    [] token.type = "index" -> IndexCase(input, token.value)
    [] token.type = "wildcard" -> WildcardCase(input)
    [] token.type = "recursive" -> collectRecursive(input, token.value)
    [] token.type = "filter" -> FilterCase(input, token.value)
    [] OTHER -> <<>>

applyToken(inputs, token) ==
  Flatten([i \in 1..Len(inputs) |-> ApplyOne(inputs[i], token)])

\* ------------------------------------------------------------------------
\* The slice case (index.ts:194-205)
\* ------------------------------------------------------------------------
RECURSIVE SplitFrom(_, _, _)
\* s.split(":"); cur is the piece being collected
SplitFrom(s, i, cur) ==
  IF i > Len(s) THEN <<cur>>
  ELSE IF s[i] = ":" THEN <<cur>> \o SplitFrom(s, i + 1, <<>>)
  ELSE SplitFrom(s, i + 1, Append(cur, s[i]))

Split(s) == SplitFrom(s, 1, <<>>)

\* parts[i] ?? dflt, where parts[i] is undefined for a missing or empty
\* piece and parseInt of the piece otherwise (NaN is not nullish)
Part(value, i, dflt) ==
  LET pieces == Split(value)
  IN IF i > Len(pieces) \/ pieces[i] = <<>> THEN JsInt(dflt)
     ELSE ParseInt(pieces[i])

SliceStart(value) == Part(value, 1, 0)
SliceEnd(value, input) == Part(value, 2, Len(input.items))
SliceStep(value) == Part(value, 3, 1)

\* a <= b in place of a < b
JsLessMutantOrEqual(a, b) == ~a.nan /\ ~b.nan /\ a.n <= b.n

\* a < b on numbers: false when either is NaN
JsLess(a, b) == ~a.nan /\ ~b.nan /\ a.n < b.n

\* a + b on numbers.  A sum below -SiDepth is not representable and rounds
\* back to a, as a double does once it has fallen to -2^53.
JsPlus(a, b) ==
  IF a.nan \/ b.nan THEN NaN
  ELSE IF a.n + b.n < 0 - SiDepth THEN a
  ELSE JsInt(a.n + b.n)

\* ------------------------------------------------------------------------
\* Documents: values JSON.parse can return (index.ts:366)
\* ------------------------------------------------------------------------
\* {"users":[{"name":"Ann","age":30},{"name":"Bo","age":17}]}
DocUsers ==
  Obj(<<[k |-> <<"u", "s", "e", "r", "s">>, v |-> Arr(<<Obj(<<[k |-> <<"n", "a", "m", "e">>, v |-> Str(<<"A", "n", "n">>)], [k |-> <<"a", "g", "e">>, v |-> Num(30)]>>), Obj(<<[k |-> <<"n", "a", "m", "e">>, v |-> Str(<<"B", "o">>)], [k |-> <<"a", "g", "e">>, v |-> Num(17)]>>)>>)]>>)

\* {"a":{"name":"x","b":{"name":"y"}}}
DocNested ==
  Obj(<<[k |-> <<"a">>, v |-> Obj(<<[k |-> <<"n", "a", "m", "e">>, v |-> Str(<<"x">>)], [k |-> <<"b">>, v |-> Obj(<<[k |-> <<"n", "a", "m", "e">>, v |-> Str(<<"y">>)]>>)]>>)]>>)

\* [10,20,30,40,50]
DocFive ==
  Arr(<<Num(10), Num(20), Num(30), Num(40), Num(50)>>)

\* {"b":1,"2":2,"1":3}
DocIntKeys ==
  Obj(<<[k |-> <<"b">>, v |-> Num(1)], [k |-> <<"2">>, v |-> Num(2)], [k |-> <<"1">>, v |-> Num(3)]>>)

\* {"-1":5,"a":[7,8]}
DocMinusKey ==
  Obj(<<[k |-> <<"-", "1">>, v |-> Num(5)], [k |-> <<"a">>, v |-> Arr(<<Num(7), Num(8)>>)]>>)

\* {}
DocEmptyObject ==
  Obj(<<>>)

\* {"":1,"a":{"":2}}
DocEmptyKey ==
  Obj(<<[k |-> <<>>, v |-> Num(1)], [k |-> <<"a">>, v |-> Obj(<<[k |-> <<>>, v |-> Num(2)]>>)]>>)

\* [{"age":30},{"age":"30"},{"name":"x"},5,null,[1],{"age":null,"name":true}]
DocMixed ==
  Arr(<<Obj(<<[k |-> <<"a", "g", "e">>, v |-> Num(30)]>>), Obj(<<[k |-> <<"a", "g", "e">>, v |-> Str(<<"3", "0">>)]>>), Obj(<<[k |-> <<"n", "a", "m", "e">>, v |-> Str(<<"x">>)]>>), Num(5), Null, Arr(<<Num(1)>>), Obj(<<[k |-> <<"a", "g", "e">>, v |-> Null], [k |-> <<"n", "a", "m", "e">>, v |-> Bool(TRUE)]>>)>>)

\* {"name":"r","list":[{"name":"p"},3,{"2":{"name":"q"},"1":{"name":"s"}}]}
DocTree ==
  Obj(<<[k |-> <<"n", "a", "m", "e">>, v |-> Str(<<"r">>)], [k |-> <<"l", "i", "s", "t">>, v |-> Arr(<<Obj(<<[k |-> <<"n", "a", "m", "e">>, v |-> Str(<<"p">>)]>>), Num(3), Obj(<<[k |-> <<"2">>, v |-> Obj(<<[k |-> <<"n", "a", "m", "e">>, v |-> Str(<<"q">>)]>>)], [k |-> <<"1">>, v |-> Obj(<<[k |-> <<"n", "a", "m", "e">>, v |-> Str(<<"s">>)]>>)]>>)>>)]>>)

\* [[10,20],[30],7]
DocRows ==
  Arr(<<Arr(<<Num(10), Num(20)>>), Arr(<<Num(30)>>), Num(7)>>)

\* 7
DocNumber ==
  Num(7)

\* null
DocNull ==
  Null

\* [10, 20, ..., 10 * n]
NumArr(n) == Arr([i \in 1..n |-> Num(10 * i)])

Docs ==
  {DocUsers,
   DocNested,
   DocFive,
   DocIntKeys,
   DocMinusKey,
   DocEmptyObject,
   DocEmptyKey,
   DocMixed,
   DocTree,
   DocRows,
   DocNumber,
   DocNull}
  \cup {NumArr(n) : n \in 0..MaxArrLen}

\* ------------------------------------------------------------------------
\* Expressions: the first positional argument (index.ts:339)
\* ------------------------------------------------------------------------
RECURSIVE NatChars(_)
\* the decimal digits of a natural number
NatChars(n) ==
  IF n < 10 THEN <<DigitChars[n + 1]>>
  ELSE NatChars(n \div 10) \o <<DigitChars[(n % 10) + 1]>>

IntChars(n) == IF n < 0 THEN <<"-">> \o NatChars(0 - n) ELSE NatChars(n)

\* the text of one slice component: absent, unparseable, or an integer
SliceComps == {<<>>, <<"x">>} \cup {IntChars(n) : n \in (0 - 1)..MaxSliceBound}

\* $[start:end:step] and $[start:end]
SliceExprs ==
  {<<"$", "[">> \o a \o <<":">> \o b \o <<":">> \o c \o <<"]">> :
     a \in SliceComps, b \in SliceComps, c \in SliceComps}
  \cup {<<"$", "[">> \o a \o <<":">> \o b \o <<"]">> :
          a \in SliceComps, b \in SliceComps}

FilterFields == {<<"a", "g", "e">>, <<"n", "a", "m", "e">>, K_toString}

FilterLiterals ==
  {<<"2", "1">>,
   <<"3", "0">>,
   <<"'", "3", "0", "'">>,
   <<"t", "r", "u", "e">>,
   <<"n", "u", "l", "l">>,
   <<"x">>,
   <<" ">>}

\* $[?(@.field op literal)]
FilterExprs ==
  {<<"$", "[", "?", "(", "@", ".">> \o f \o FilterOps[o] \o l \o <<")", "]">> :
     f \in FilterFields, o \in 1..Len(FilterOps), l \in FilterLiterals}

FixedExprs ==
  {<<"$">>,
   <<"u", "s", "e", "r", "s">>,
   <<".", "a">>,
   <<"$", ".", "u", "s", "e", "r", "s", "[", "?", "(", "@", ".", "a", "g", "e", ">", "2", "1", ")", "]">>,
   <<"$", ".", ".", "n", "a", "m", "e">>,
   <<"$", "[", "1", ":", "3", "]">>,
   <<"$", "[", ":", ":", "2", "]">>,
   <<"$", "[", "5", ":", "1", "0", "]">>,
   <<"$", "[", "*", "]">>,
   <<"$", ".", "*">>,
   <<"$", "[", "-", "1", "]">>,
   <<"$", ".", "a", "[", "-", "1", "]">>,
   <<"$", "[", "]">>,
   <<"$", "[">>,
   <<"$", ".", "a", "[", "]">>,
   <<"$", "[", "*", "]", "[">>,
   <<"$", ".", "a">>,
   <<"$", ".", "a", ".">>,
   <<"$", ".">>,
   <<"$", ".", "u", "s", "e", "r", "s", "[", "0", "]">>,
   <<"$", ".", "u", "s", "e", "r", "s", "[", "*", "]", ".", "n", "a", "m", "e">>,
   <<"$", ".", "u", "s", "e", "r", "s", "[", "5", "]">>,
   <<"$", ".", "c", "o", "n", "s", "t", "r", "u", "c", "t", "o", "r">>,
   <<"$", ".", ".", "c", "o", "n", "s", "t", "r", "u", "c", "t", "o", "r">>,
   <<"$", ".", "_", "_", "p", "r", "o", "t", "o", "_", "_">>,
   <<"$", ".", "_", "_", "p", "r", "o", "t", "o", "_", "_", ".", "_", "_", "p", "r", "o", "t", "o", "_", "_">>,
   <<"$", ".", ".", "t", "o", "S", "t", "r", "i", "n", "g">>,
   <<"$", ".", "l", "i", "s", "t", "[", "*", "]">>,
   <<"$", "[", "?", "(", "@", ".", "c", "o", "n", "s", "t", "r", "u", "c", "t", "o", "r", "!", "=", "1", ")", "]">>,
   <<"$", "[", "?", "(", "@", ".", "z", "i", "p", "!", "=", "1", ")", "]">>,
   <<"$", "[", "?", "(", "b", "a", "d", ")", "]">>,
   <<"$", "[", "?", "(", "@", ".", "a", "g", "e", ">", "=", ")", "]">>,
   <<"$", "[", "?", "@", ".", "a", "g", "e", " ", "=", "=", " ", "'", "3", "0", "'", " ", "]">>,
   <<"$", "[", "?", " ", "(", " ", "@", ".", "a", "g", "e", "<", "=", " ", "3", "0", ")", "]">>,
   <<"$", "[", "x", ":", "y", "]">>,
   <<"$", "[", "'", "a", "'", "]">>,
   <<"$", "[", "\"", "a", "\"", "]", "[", "'", "n", "a", "m", "e", "'", "]">>,
   <<"$", "[", "*", "]", "[", "0", ":", "1", "]">>,
   <<"$", "[", "*", "]", "[", ":", ":", "0", "]">>,
   <<"$", "[", "0", ":", "1", ":", "1", ":", "0", "]">>,
   <<"$", "[", "2", "]">>,
   <<"$", "[", "0", "1", "]">>,
   <<"$", ".", ".">>,
   <<"$", ".", ".", "a", ".", ".", "n", "a", "m", "e">>,
   <<"$", " ", ".", "a">>,
   <<"$", "[", "[", "0", "]", "]">>,
   <<"$", ".", "l", "i", "s", "t", "[", "2", "]", ".", "*">>,
   <<"$", ".", ".", "*">>}

Exprs == FixedExprs \cup SliceExprs \cup FilterExprs

\* ------------------------------------------------------------------------
\* queryJsonPath (index.ts:75-88) as a state machine.  The slice loop of
\* applyToken is taken one test and one iteration at a time; every other
\* token is applied in one step.
\* ------------------------------------------------------------------------
VARIABLES
  doc,      \* data
  expr,     \* expression
  pc,       \* "start", "loop", "sliceInput", "sliceLoop", "sliceBody", "done",
            \* "error" (the Error of line 77 was thrown),
            \* "crashed" (the result array outgrew the heap)
  tokens,   \* tokens
  k,        \* position in tokens of the token the for loop is at
  results,  \* results of queryJsonPath
  out,      \* results of the running applyToken call (slice case)
  ii,       \* position in inputs of the input the slice case is at
  si        \* si of the slice loop

vars == <<doc, expr, pc, tokens, k, results, out, ii, si>>

\* expression.startsWith("$")
BeginsWithRoot(e) == e # <<>> /\ e[1] = "$"

\* line 81 with the root left out
InitialResultsMutantEmpty(data) == <<>>

\* line 81
InitialResults(data) == <<data>>

Init ==
  /\ doc \in Docs
  /\ expr \in Exprs
  /\ pc = "start"
  /\ tokens = <<>>
  /\ k = 1
  /\ results = <<>>
  /\ out = <<>>
  /\ ii = 1
  /\ si = JsInt(0)

\* lines 76-81
QueryStart ==
  /\ pc = "start"
  /\ IF ~BeginsWithRoot(expr)
     THEN /\ pc' = "error"
          /\ UNCHANGED <<tokens, results>>
     ELSE /\ tokens' = tokenize(Tail(expr))
          /\ results' = InitialResults(doc)
          /\ pc' = "loop"
  /\ UNCHANGED <<doc, expr, k, out, ii, si>>

\* lines 83-85 for a token that is not a slice
ApplyToken ==
  /\ pc = "loop"
  /\ k <= Len(tokens)
  /\ tokens[k].type # "slice"
  /\ results' = applyToken(results, tokens[k])
  /\ k' = k + 1
  /\ UNCHANGED <<doc, expr, pc, tokens, out, ii, si>>

\* lines 83-84, 157: applyToken is entered with a slice token
SliceBegin ==
  /\ pc = "loop"
  /\ k <= Len(tokens)
  /\ tokens[k].type = "slice"
  /\ out' = <<>>
  /\ ii' = 1
  /\ pc' = "sliceInput"
  /\ UNCHANGED <<doc, expr, tokens, k, results, si>>

\* lines 159, 195-200, 209: the next input, or the return of applyToken
SliceInput ==
  /\ pc = "sliceInput"
  /\ IF ii > Len(results)
     THEN /\ results' = out
          /\ k' = k + 1
          /\ pc' = "loop"
          /\ UNCHANGED <<ii, si>>
     ELSE IF IsArray(results[ii])
     THEN /\ si' = SliceStart(tokens[k].value)
          /\ pc' = "sliceLoop"
          /\ UNCHANGED <<results, k, ii>>
     ELSE /\ ii' = ii + 1
          /\ UNCHANGED <<results, k, pc, si>>
  /\ UNCHANGED <<doc, expr, tokens, out>>

\* line 200: the test si < end
SliceTest ==
  /\ pc = "sliceLoop"
  /\ IF JsLess(si, SliceEnd(tokens[k].value, results[ii]))
     THEN /\ pc' = "sliceBody"
          /\ UNCHANGED ii
     ELSE /\ ii' = ii + 1
          /\ pc' = "sliceInput"
  /\ UNCHANGED <<doc, expr, tokens, k, results, out, si>>

\* lines 200-201: the body of the loop, then si += step.  The push fails
\* once the result array holds MaxResults elements.
SliceBody ==
  /\ pc = "sliceBody"
  /\ LET input == results[ii]
         step == SliceStep(tokens[k].value)
     IN IF si.n >= 0 /\ si.n < Len(input.items)
        THEN IF Len(out) < MaxResults
             THEN /\ out' = Append(out, input.items[si.n + 1])
                  /\ si' = JsPlus(si, step)
                  /\ pc' = "sliceLoop"
             ELSE /\ pc' = "crashed"
                  /\ UNCHANGED <<out, si>>
        ELSE /\ si' = JsPlus(si, step)
             /\ pc' = "sliceLoop"
             /\ UNCHANGED out
  /\ UNCHANGED <<doc, expr, tokens, k, results, ii>>

\* line 87
QueryReturn ==
  /\ pc = "loop"
  /\ k > Len(tokens)
  /\ pc' = "done"
  /\ UNCHANGED <<doc, expr, tokens, k, results, out, ii, si>>

Next ==
  \/ QueryStart
  \/ ApplyToken
  \/ SliceBegin
  \/ SliceInput
  \/ SliceTest
  \/ SliceBody
  \/ QueryReturn

Spec == Init /\ [][Next]_vars

\* The calls on which termination is examined: the slices with start and
\* end among -1, 0, 1, absent and unparseable and step among 0, 1, absent
\* and unparseable, on short arrays and an array of arrays, and a few
\* queries without a slice.
LiveSliceComps == {<<>>, <<"x">>, <<"-", "1">>, <<"0">>, <<"1">>}

LiveStepComps == {<<>>, <<"x">>, <<"0">>, <<"1">>}

LiveExprs ==
  {<<"$", "[">> \o a \o <<":">> \o b \o <<":">> \o c \o <<"]">> :
     a \in LiveSliceComps, b \in LiveSliceComps, c \in LiveStepComps}
  \cup {<<"$">>, <<".", "a">>, <<"$", "[", "*", "]", "[", "0", ":", "1", "]">>,
        <<"$", "[", "*", "]", "[", ":", ":", "0", "]">>}

LiveDocs == {NumArr(1), NumArr(2), DocRows}

LiveInit ==
  /\ doc \in LiveDocs
  /\ expr \in LiveExprs
  /\ pc = "start"
  /\ tokens = <<>>
  /\ k = 1
  /\ results = <<>>
  /\ out = <<>>
  /\ ii = 1
  /\ si = JsInt(0)

\* the engine runs the call to its end: no step that can be taken is
\* postponed for ever
FairSpec == LiveInit /\ [][Next]_vars /\ WF_vars(Next)

\* ------------------------------------------------------------------------
\* Properties
\* ------------------------------------------------------------------------
\* the for loop of queryJsonPath is about to apply a token of this type
AtToken(type) == pc = "loop" /\ k <= Len(tokens) /\ tokens[k].type = type

\* C1: for every document D the query "$" returns exactly the one-element
\* sequence [D].
RootQueryReturnsDocument ==
  (pc = "done" /\ expr = <<"$">>) => (tokens = <<>> /\ results = <<doc>>)

RootQueryWitness ==
  pc = "done" /\ expr = <<"$">> /\ doc = DocUsers /\ results = <<DocUsers>>

\* --- C4 -----------------------------------------------------------------
\* the integer a slice component denotes: the n whose decimal text it is
LiteralInt(piece) == CHOOSE n \in (0 - 99)..99 : IntChars(n) = piece

IsLiteralInt(piece) == \E n \in (0 - 99)..99 : IntChars(n) = piece

\* start:end or start:end:step, every component absent or an integer
WellFormedSlice(value) ==
  LET pieces == Split(value)
  IN /\ Len(pieces) \in {2, 3}
     /\ \A i \in 1..Len(pieces) : pieces[i] = <<>> \/ IsLiteralInt(pieces[i])

Component(value, i, dflt) ==
  LET pieces == Split(value)
  IN IF i > Len(pieces) \/ pieces[i] = <<>> THEN dflt ELSE LiteralInt(pieces[i])

RECURSIVE ElementsAt(_, _, _)
\* the elements of items at the zero-based positions of I, ascending
ElementsAt(items, I, i) ==
  IF i >= Len(items) THEN <<>>
  ELSE (IF i \in I THEN <<items[i + 1]>> ELSE <<>>) \o ElementsAt(items, I, i + 1)

\* the elements at start, start + step, ... below end that exist
StridedElements(input, value) ==
  IF ~IsArray(input) THEN <<>>
  ELSE LET len == Len(input.items)
           start == Component(value, 1, 0)
           end == Component(value, 2, len)
           step == Component(value, 3, 1)
           I == {i \in 0..(len - 1) :
                   /\ step >= 1
                   /\ start <= i /\ i < end
                   /\ (i - start) % step = 0}
       IN ElementsAt(input.items, I, 0)

\* C4: a slice start:end:step (each component optional, defaults 0, the
\* array length, 1) yields, in order, the elements at start, start + step,
\* ... strictly below end whose index is in [0, length); [1:3] on
\* [10,20,30,40,50] yields [20,30], [::2] yields [10,30,50], and [5:10] on
\* a 3-element array yields [].  Stated of every input the slice loop has
\* completed.
SliceYieldsStridedElements ==
  /\ (pc = "sliceInput" /\ WellFormedSlice(tokens[k].value))
       => out = Flatten([i \in 1..(ii - 1) |->
                           StridedElements(results[i], tokens[k].value)])
  /\ (pc = "done" /\ doc = DocFive /\ expr = <<"$", "[", "1", ":", "3", "]">>)
       => results = <<Num(20), Num(30)>>
  /\ (pc = "done" /\ doc = DocFive /\ expr = <<"$", "[", ":", ":", "2", "]">>)
       => results = <<Num(10), Num(30), Num(50)>>
  /\ (pc = "done" /\ doc = NumArr(3) /\ expr = <<"$", "[", "5", ":", "1", "0", "]">>)
       => results = <<>>

SliceWitness ==
  /\ pc = "done"
  /\ doc = DocFive
  /\ expr = <<"$", "[", ":", ":", "2", "]">>
  /\ results = <<Num(10), Num(30), Num(50)>>

\* --- C5 -----------------------------------------------------------------
\* the values of an object in the order its keys were inserted
ValuesAsInserted(o) == [i \in 1..Len(o.members) |-> o.members[i].v]

\* the key is the decimal text of a natural number
IntegerKey(key) == \E n \in 0..99 : NatChars(n) = key

IntegerKeyValue(key) == CHOOSE n \in 0..99 : NatChars(n) = key

\* member a is enumerated before member b: integer keys by value first,
\* then the other keys as inserted
EnumeratedBefore(members, a, b) ==
  LET ka == members[a].k
      kb == members[b].k
  IN \/ IntegerKey(ka) /\ ~IntegerKey(kb)
     \/ IntegerKey(ka) /\ IntegerKey(kb) /\ IntegerKeyValue(ka) < IntegerKeyValue(kb)
     \/ ~IntegerKey(ka) /\ ~IntegerKey(kb) /\ a < b

ValuesAsEnumerated(o) ==
  LET n == Len(o.members)
      p == CHOOSE q \in [1..n -> 1..n] :
             \A i \in 1..n : \A j \in 1..n :
               i < j => EnumeratedBefore(o.members, q[i], q[j])
  IN [i \in 1..n |-> o.members[p[i]].v]

\* what a wildcard yields for one input, given the order of object values
WildcardYield(input, ObjectOrder(_)) ==
  IF input.t = "arr" THEN input.items
  ELSE IF input.t = "obj" THEN ObjectOrder(input)
  ELSE <<>>

\* C5 as stated: a wildcard yields the values of an Object in key-insertion
\* order, whatever the keys, and the elements of an Array in index order;
\* other inputs contribute nothing.
WildcardInsertionOrder ==
  [][AtToken("wildcard")
       => results' = Flatten([i \in 1..Len(results) |->
                                WildcardYield(results[i], ValuesAsInserted)])]_vars

\* C5 as amended: a wildcard yields the values of an Object in the order
\* the engine enumerates its keys (keys that are canonical non-negative
\* integers first, in ascending numeric order, then the other keys in
\* insertion order) and the elements of an Array in index order; other
\* inputs contribute nothing.
WildcardEnumerationOrder ==
  [][AtToken("wildcard")
       => results' = Flatten([i \in 1..Len(results) |->
                                WildcardYield(results[i], ValuesAsEnumerated)])]_vars

WildcardWitness ==
  /\ pc = "done"
  /\ doc = DocIntKeys
  /\ expr = <<"$", "[", "*", "]">>
  /\ results = <<Num(3), Num(2), Num(1)>>

\* --- C2 -----------------------------------------------------------------
\* the comparison of a field value with a decoded literal
Satisfies(op, fieldVal, literal) ==
  CASE op = <<"=", "=">> -> fieldVal = literal
    [] op = <<"!", "=">> -> fieldVal # literal
    [] op = <<">">> -> fieldVal.t = "num" /\ literal.t = "num" /\ fieldVal.n > literal.n
    [] op = <<"<">> -> fieldVal.t = "num" /\ literal.t = "num" /\ fieldVal.n < literal.n
    [] op = <<">", "=">> -> fieldVal.t = "num" /\ literal.t = "num" /\ fieldVal.n >= literal.n
    [] op = <<"<", "=">> -> fieldVal.t = "num" /\ literal.t = "num" /\ fieldVal.n <= literal.n

\* the elements of an Array input that are Objects, contain the field and
\* satisfy the comparison, in their order
KeptByPredicate(input, filterExpr) ==
  LET m == MatchFilter(filterExpr)
      Passes(item) ==
        /\ item.t = "obj"
        /\ \E i \in 1..Len(item.members) :
             /\ item.members[i].k = m.field
             /\ Satisfies(m.op, item.members[i].v, CompareVal(m.rawValue))
  IN IF input.t = "arr" THEN SelectSeq(input.items, Passes) ELSE <<>>

AnnObject ==
  Obj(<<[k |-> <<"n", "a", "m", "e">>, v |-> Str(<<"A", "n", "n">>)],
        [k |-> <<"a", "g", "e">>, v |-> Num(30)]>>)

\* C2: a filter @.<field> <op> <literal> applied to an Array yields exactly
\* the elements, in their order, that are Objects, contain <field> and
\* satisfy the comparison; the ordering operators pass only two Numbers; an
\* element that lacks the field is rejected for every operator, != too.
\* $.users[?(@.age>21)] on Ann(30), Bo(17) returns Ann's object only.
FilterKeepsMatchingObjects ==
  /\ [][(AtToken("filter") /\ MatchFilter(tokens[k].value).ok)
          => results' = Flatten([i \in 1..Len(results) |->
                                   KeptByPredicate(results[i], tokens[k].value)])]_vars
  /\ []((pc = "done" /\ doc = DocUsers
           /\ expr = <<"$", ".", "u", "s", "e", "r", "s",
                       "[", "?", "(", "@", ".", "a", "g", "e", ">", "2", "1", ")", "]">>)
          => results = <<AnnObject>>)

\* --- C3 -----------------------------------------------------------------
\* the children of a node, in the order the walk descends into them
Children(v) ==
  IF v.t = "arr" THEN v.items
  ELSE IF v.t = "obj" THEN ObjectValues(v)
  ELSE <<>>

RECURSIVE PathsOf(_)
\* the paths (sequences of child positions) to the nodes of a value
PathsOf(v) ==
  {<<>>} \cup UNION {{<<i>> \o p : p \in PathsOf(Children(v)[i])} :
                       i \in 1..Len(Children(v))}

RECURSIVE NodeAt(_, _)
NodeAt(v, path) ==
  IF path = <<>> THEN v ELSE NodeAt(Children(v)[Head(path)], Tail(path))

\* p comes before q in a pre-order walk: it is a prefix of q, or it turns
\* to an earlier child where they part
PreorderBefore(p, q) ==
  \E j \in 0..Len(p) :
    /\ j <= Len(q)
    /\ SubSeq(p, 1, j) = SubSeq(q, 1, j)
    /\ (j = Len(p) \/ (j < Len(q) /\ p[j + 1] < q[j + 1]))

RECURSIVE InPreorder(_)
InPreorder(P) ==
  IF P = {} THEN <<>>
  ELSE LET first == CHOOSE p \in P : \A q \in P : PreorderBefore(p, q)
       IN <<first>> \o InPreorder(P \ {first})

\* the value of key at every Object node that has the key, in pre-order
OccurrencesInPreorder(v, key) ==
  LET hits == {p \in PathsOf(v) :
                 /\ NodeAt(v, p).t = "obj"
                 /\ \E i \in 1..Len(NodeAt(v, p).members) :
                      NodeAt(v, p).members[i].k = key}
      ord == InPreorder(hits)
      ValueAt(node) ==
        node.members[CHOOSE i \in 1..Len(node.members) : node.members[i].k = key].v
  IN [i \in 1..Len(ord) |-> ValueAt(NodeAt(v, ord[i]))]

\* C3: a Recursive segment for key K appends, in a pre-order depth-first
\* walk of the input, the value of K at every Object node that has K as a
\* key, at every depth and the subtree root included, with no duplicate
\* suppression; $..name on {"a":{"name":"x","b":{"name":"y"}}} returns
\* ["x","y"].
RecursiveCollectsKeyOccurrences ==
  /\ [][AtToken("recursive")
          => results' = Flatten([i \in 1..Len(results) |->
                                   OccurrencesInPreorder(results[i], tokens[k].value)])]_vars
  /\ []((pc = "done" /\ doc = DocNested /\ expr = <<"$", ".", ".", "n", "a", "m", "e">>)
          => results = <<Str(<<"x">>), Str(<<"y">>)>>)

\* --- C6 -----------------------------------------------------------------
\* the text of a negative integer
NegativeLiteral(value) == \E n \in (0 - 99)..(0 - 1) : IntChars(n) = value

AtNegativeLiteral ==
  /\ pc = "loop"
  /\ k <= Len(tokens)
  /\ NegativeLiteral(tokens[k].value)

\* [-1] is tokenized as a Property named -1, never as an Index
NegativeBracketIsProperty ==
  (pc \notin {"start", "error"} /\ expr = <<"$", "[", "-", "1", "]">>)
    => tokens = <<Token("property", <<"-", "1">>)>>

\* C6 as stated: a negative bracket literal such as [-1] becomes a Property
\* segment that matches no key, so for every input, whatever its keys, the
\* segment contributes nothing.
NegativeIndexContributesNothing ==
  /\ []NegativeBracketIsProperty
  /\ [][AtNegativeLiteral => results' = <<>>]_vars

\* what a Property segment named key yields for one input that comes from
\* the document
OwnProperty(input, key) ==
  IF input.t = "obj" /\ \E i \in 1..Len(input.members) : input.members[i].k = key
  THEN <<input.members[CHOOSE i \in 1..Len(input.members) :
                         input.members[i].k = key].v>>
  ELSE <<>>

\* C6 as amended: a negative bracket literal such as [-1] becomes a
\* Property segment named by the literal; it contributes nothing for an
\* Array, a primitive or an Object without that key, and contributes the
\* key's value for an Object that has a key spelled like the literal.
NegativeIndexIsPropertyLookup ==
  /\ []NegativeBracketIsProperty
  /\ [][AtNegativeLiteral
          => /\ tokens[k].type = "property"
             /\ results' = Flatten([i \in 1..Len(results) |->
                                      OwnProperty(results[i], tokens[k].value)])]_vars

NegativeIndexWitness ==
  /\ pc = "done"
  /\ doc = DocMinusKey
  /\ expr = <<"$", "[", "-", "1", "]">>
  /\ results = <<Num(5)>>

\* --- C7 -----------------------------------------------------------------
\* C7: the call fails with the invalid-expression error if and only if the
\* query does not begin with $, and then nothing is tokenized or evaluated;
\* for every query that begins with $ and every document the call returns
\* a result sequence and never fails, whatever it meets.
FailsOnlyWithoutRoot ==
  /\ [](pc = "error" => ~BeginsWithRoot(expr))
  /\ [](~BeginsWithRoot(expr)
          => (pc \in {"start", "error"} /\ tokens = <<>> /\ results = <<>>))
  /\ [](pc # "crashed")
  /\ <>(pc = IF BeginsWithRoot(expr) THEN "done" ELSE "error")

\* --- C8 -----------------------------------------------------------------
RECURSIVE SubValues(_)
\* a value and everything reachable from it through object members and
\* array elements
SubValues(v) ==
  {v} \cup (IF v.t = "arr"
            THEN UNION {SubValues(v.items[i]) : i \in 1..Len(v.items)}
            ELSE IF v.t = "obj"
            THEN UNION {SubValues(v.members[i].v) : i \in 1..Len(v.members)}
            ELSE {})

\* C8: after any prefix of the segments, every value of the result set is
\* the root document or a sub-value of it, for any key name the query can
\* spell.
ResultsStayWithinDocument ==
  pc \in {"loop", "sliceInput", "sliceLoop", "sliceBody", "done"}
    => /\ \A i \in 1..Len(results) : results[i] \in SubValues(doc)
       /\ \A i \in 1..Len(out) : out[i] \in SubValues(doc)

\* --- C9 -----------------------------------------------------------------
\* C9: applying a Slice segment to an Array input terminates for every
\* start, end and step, a step of zero included.  The loop counts as ended
\* here even when it ends by the failure of a push.
SliceLoopTerminates == (pc = "sliceLoop") ~> (pc \in {"sliceInput", "crashed"})

\* --- C10 ----------------------------------------------------------------
\* the number of ch among the first j characters of s
CountUpTo(s, ch, j) == Cardinality({i \in 1..j : s[i] = ch})

\* every bracket of s is closed, properly nested
BracketsClosed(s) ==
  /\ CountUpTo(s, "[", Len(s)) = CountUpTo(s, "]", Len(s))
  /\ \A j \in 1..Len(s) : CountUpTo(s, "[", j) >= CountUpTo(s, "]", j)

\* the query ends with [] or with an unterminated [, all brackets before it
\* closed; the length of that ending, or 0
EmptyBracketEnding(e) ==
  IF Len(e) >= 2 /\ SubSeq(e, Len(e) - 1, Len(e)) = <<"[", "]">>
        /\ BracketsClosed(SubSeq(e, 1, Len(e) - 2))
  THEN 2
  ELSE IF Len(e) >= 1 /\ e[Len(e)] = "[" /\ BracketsClosed(SubSeq(e, 1, Len(e) - 1))
  THEN 1
  ELSE 0

\* the query ends with a bare dot after something that is not a dot
BareDotEnding(e) ==
  /\ Len(e) >= 2
  /\ e[Len(e)] = "."
  /\ e[Len(e) - 1] # "."
  /\ BracketsClosed(e)

Tokenized == pc \notin {"start", "error"}

\* a trailing dot with an empty name emits no segment
BareDotEmitsNoSegment ==
  (Tokenized /\ BareDotEnding(expr))
    => tokens = tokenize(SubSeq(expr, 2, Len(expr) - 1))

\* C10 as stated: for [] or an unterminated [ the tokenizer emits no
\* segment, so the segment sequence is the one of the query without that
\* bracket, as for the dot form with an empty name.
EmptyBracketEmitsNoSegment ==
  /\ (Tokenized /\ EmptyBracketEnding(expr) > 0)
       => tokens = tokenize(SubSeq(expr, 2, Len(expr) - EmptyBracketEnding(expr)))
  /\ BareDotEmitsNoSegment

\* C10 as amended: for [] or an unterminated [ the tokenizer raises no
\* error and emits a Property segment with the empty name after the
\* segments of the query without that bracket; only the dot form with an
\* empty name emits no segment.
EmptyBracketEmitsEmptyProperty ==
  /\ (Tokenized /\ EmptyBracketEnding(expr) > 0)
       => tokens = Append(tokenize(SubSeq(expr, 2, Len(expr) - EmptyBracketEnding(expr))),
                          Token("property", <<>>))
  /\ BareDotEmitsNoSegment

EmptyBracketWitness ==
  /\ pc = "done"
  /\ doc = DocEmptyKey
  /\ expr = <<"$", "[", "]">>
  /\ tokens = <<Token("property", <<>>)>>
  /\ results = <<Num(1)>>

====
